---- MODULE Spec2Model ----
(***************************************************************************)
(* A model of the scheduling assistant of nishimura0710/hackathon_TEST:    *)
(*   - app/chat.py            parse_datetime_jp, find_longest_available_   *)
(*                            slot, create_calendar_event, schedule_chat   *)
(*   - app/main.py            get_calendar_events, create_calendar_event,  *)
(*                            chat_schedule                                *)
(*   - app/claude_service.py  ClaudeService.validate_time_slot,            *)
(*                            find_available_slots, analyze_free_slots     *)
(*   - app/auth.py            auth_google, auth_callback                   *)
(*   - app/calendar.py        get_calendar_service, list_events            *)
(* Instants are minutes in JST counted from 1 January 00:00 of the         *)
(* current year; an interval is a record [start, end]; an optional value   *)
(* is the empty sequence (None) or a one-element sequence.                 *)
(***************************************************************************)
EXTENDS Integers, Sequences, FiniteSets, TLC

VARIABLES now, calendars, redis, log, cs

vars == <<now, calendars, redis, log, cs>>

-----------------------------------------------------------------------------
(* Time: datetime arithmetic as the handlers use it.                        *)

MinutesPerHour == 60
MinutesPerDay == 1440
DaysPerYear == 365

None == <<>>
Some(x) == <<x>>
IsNone(o) == o = <<>>
Val(o) == o[1]

Iv(s, e) == [start |-> s, end |-> e]

\* max(a, b) taken for its second argument
Max2_second(a, b) == b

Max2(a, b) == IF a >= b THEN a ELSE b
Min2(a, b) == IF a <= b THEN a ELSE b

\* days before the first of each month, non-leap year
MonthStart == <<0, 31, 59, 90, 120, 151, 181, 212, 243, 273, 304, 334, 365>>

\* datetime(year, month, day, hour, minute): year 0 is the current year
DateTime(y, mo, d, h, mi) ==
    ((y * DaysPerYear + MonthStart[mo] + (d - 1)) * MinutesPerDay)
        + h * MinutesPerHour + mi

DayOf(t) == t \div MinutesPerDay
Midnight(t) == DayOf(t) * MinutesPerDay
Hour(t) == (t % MinutesPerDay) \div MinutesPerHour
Minute(t) == t % MinutesPerHour
YearOf(t) == DayOf(t) \div DaysPerYear
MonthOf(t) ==
    LET doy == DayOf(t) % DaysPerYear
    IN  CHOOSE mo \in 1..12 : MonthStart[mo] <= doy /\ doy < MonthStart[mo + 1]
DayOfMonth(t) == (DayOf(t) % DaysPerYear) - MonthStart[MonthOf(t)] + 1

\* dt.replace(hour=h), dt.replace(minute=m), dt.replace(hour=h, minute=m)
ReplaceHour(t, h) == Midnight(t) + h * MinutesPerHour + Minute(t)
ReplaceMinute(t, mi) == Midnight(t) + Hour(t) * MinutesPerHour + mi
ReplaceHourMinute(t, h, mi) == Midnight(t) + h * MinutesPerHour + mi

\* the half-open overlap test of spec 4.1
Overlaps(a, b) == a.start < b.end /\ b.start < a.end

-----------------------------------------------------------------------------
(* Program constants.                                                       *)

BusinessStartHour == 9
BusinessEndHour == 17
AfternoonStartHour == 13
ClaudeBusinessEndHour == 18
MinDisplayMinutes == 30
SearchDays == 7

-----------------------------------------------------------------------------
(* Messages.  A chat message is modelled by what the regular expressions    *)
(* of the handlers extract from it:                                         *)
(*   text    "hai" (はい), "iie" (いいえ) or "req" (anything else)          *)
(*   date    None or <<month, day>>        (\d+)月(\d+)日                   *)
(*   gogo    TRUE iff the text contains 午後                                *)
(*   tilde   None or <<h1, h2>>            (\d{1,2})時[〜～](\d{1,2})時     *)
(*   kara    None or <<h1, m1, h2, m2>>    X月Y日のA時からB時 / A:MMからB:MM *)
(*   intent  what the sentence asks for: "event_creation" (…を入れて),      *)
(*           "availability_check" (…を教えて) or "unknown"                  *)

Msg(text, date, gogo, tilde, kara, intent) ==
    [text |-> text, date |-> date, gogo |-> gogo, tilde |-> tilde,
     kara |-> kara, intent |-> intent]

-----------------------------------------------------------------------------
(* app/chat.py                                                              *)

\* lines 45-61 and 375-377: the month/day of the message in the current
\* year, or in the next one when that midnight is before now
target_date_of(date, t) ==
    LET this == DateTime(YearOf(t), date[1], date[2], 0, 0)
    IN  IF this < t THEN DateTime(YearOf(t) + 1, date[1], date[2], 0, 0)
        ELSE this

\* parse_datetime_jp: None or Some([start, end, is_range])
parse_datetime_jp(msg, t) ==
    LET target_date == IF IsNone(msg.date) THEN Midnight(t)
                       ELSE target_date_of(Val(msg.date), t)
        clamp(h) == Max2(BusinessStartHour, Min2(h, BusinessEndHour))
    IN  IF msg.gogo
        THEN Some([start |-> ReplaceHour(target_date, AfternoonStartHour),
                   end |-> ReplaceHour(target_date, BusinessEndHour),
                   is_range |-> TRUE])
        ELSE IF ~IsNone(msg.tilde)
        THEN Some([start |-> ReplaceHour(target_date, clamp(Val(msg.tilde)[1])),
                   end |-> ReplaceHour(target_date, clamp(Val(msg.tilde)[2])),
                   is_range |-> TRUE])
        ELSE IF ~IsNone(msg.kara) /\ ~IsNone(msg.date)
        THEN LET sh == Val(msg.kara)[1]
                 sm == Val(msg.kara)[2]
                 eh == Val(msg.kara)[3]
                 em == Val(msg.kara)[4]
             IN  IF sh < BusinessStartHour \/ sh > BusinessEndHour
                    \/ eh < BusinessStartHour \/ eh > BusinessEndHour
                 THEN None
                 ELSE Some([start |-> target_date + sh * MinutesPerHour + sm,
                            end |-> target_date + eh * MinutesPerHour + em,
                            is_range |-> TRUE])
        ELSE None

\* sorted(events, key=start): a stable insertion sort
RECURSIVE InsertByStart(_, _)
InsertByStart(sorted, ev) ==
    IF sorted = <<>> THEN <<ev>>
    ELSE IF sorted[Len(sorted)].start <= ev.start THEN Append(sorted, ev)
    ELSE Append(InsertByStart(SubSeq(sorted, 1, Len(sorted) - 1), ev),
                sorted[Len(sorted)])

RECURSIVE SortByStart(_)
SortByStart(events) ==
    IF events = <<>> THEN <<>>
    ELSE InsertByStart(SortByStart(SubSeq(events, 1, Len(events) - 1)),
                       events[Len(events)])

\* lines 199-219: the loop over the sorted events, from index i on
RECURSIVE longest_walk(_, _, _, _, _, _, _)
longest_walk(sorted_events, i, start_time, end_time, current, longest_duration, longest_slot) ==
    IF i > Len(sorted_events)
    THEN [current |-> current, longest_duration |-> longest_duration,
          longest_slot |-> longest_slot]
    ELSE LET event == sorted_events[i]
         IN  IF event.end <= start_time
             THEN longest_walk(sorted_events, i + 1, start_time, end_time,
                               current, longest_duration, longest_slot)
             ELSE IF event.start >= end_time
             THEN [current |-> current, longest_duration |-> longest_duration,
                   longest_slot |-> longest_slot]
             ELSE LET gap == current < event.start
                             /\ event.start - current > longest_duration
                  IN  longest_walk(sorted_events, i + 1, start_time, end_time,
                          Max2(current, event.end),
                          IF gap THEN event.start - current ELSE longest_duration,
                          IF gap THEN Some(Iv(current, event.start)) ELSE longest_slot)

\* find_longest_available_slot: None or Some(interval)
find_longest_available_slot(events, start_time0, end_time0) ==
    LET start_time == IF Hour(start_time0) < BusinessStartHour
                      THEN ReplaceHourMinute(start_time0, BusinessStartHour, 0)
                      ELSE start_time0
        end_time == IF Hour(end_time0) > BusinessEndHour
                    THEN ReplaceHourMinute(end_time0, BusinessEndHour, 0)
                    ELSE end_time0
    IN  IF start_time >= end_time THEN None
        ELSE IF events = <<>> THEN Some(Iv(start_time, end_time))
        ELSE LET w == longest_walk(SortByStart(events), 1, start_time, end_time,
                                   start_time, 0, None)
                 after == IF w.current < end_time
                             /\ end_time - w.current > w.longest_duration
                          THEN Some(Iv(w.current, end_time))
                          ELSE w.longest_slot
             IN  IF IsNone(after) /\ w.current < end_time
                 THEN Some(Iv(w.current, end_time))
                 ELSE after

\* the responses of schedule_chat (chat.py) and the ones its tests expect
Registered == "registered"            \* …を登録しました
RegisterFailed == "register_failed"   \* 予定の登録に失敗しました。もう一度お試しください。
NoFreeTime == "no_free_time"          \* …の間に空き時間が見つかりませんでした。
NoSlotListing == "no_slot_listing"    \* 指定された日時に空き時間が見つかりませんでした。以下の…
Error500 == "error_500"               \* HTTPException(500)
Error401 == "error_401"               \* HTTPException(401)
FormatHelp == "format_help"           \* 申し訳ありません。日時の指定方法が正しくありません。
ConfirmPrompt == "confirm_prompt"     \* …予定を登録してよろしいですか
CancelAck == "cancel_ack"             \* キャンセル…他の時間帯…
ChooseNumber == "choose_number"       \* 1からNの番号を選択してください
RetrievalFailed == "retrieval_failed" \* カレンダー情報の取得に失敗しました

\* what one turn of a handler did: the response, the (at most one) interval
\* handed to create_calendar_event, and the intervals listed as free
Outcome(response, created, listed) ==
    [response |-> response, created |-> created, listed |-> listed]

\* a handler that called create_calendar_event again after a failure
create_attempt_retried(slot, createOk) ==
    Outcome(IF createOk THEN Registered ELSE RegisterFailed,
            IF createOk THEN <<slot>> ELSE <<slot, slot>>, <<>>)

\* lines 328-333, 433-438, 496-506: one call of create_calendar_event, and a
\* return whether it succeeded or not
create_attempt(slot, createOk) ==
    Outcome(IF createOk THEN Registered ELSE RegisterFailed, <<slot>>, <<>>)

\* lines 320-325, 415-424: index of the first event the slot overlaps, or 0
RECURSIVE first_conflict(_, _, _, _)
first_conflict(events, i, s, e) ==
    IF i > Len(events) THEN 0
    ELSE IF s < events[i].end /\ e > events[i].start THEN i
    ELSE first_conflict(events, i + 1, s, e)

\* lines 469-481: the same test, restricted to events that start on the
\* slot's own date
RECURSIVE first_conflict_same_date(_, _, _, _)
first_conflict_same_date(events, i, s, e) ==
    IF i > Len(events) THEN 0
    ELSE IF s < events[i].end /\ e > events[i].start
            /\ DayOf(events[i].start) = DayOf(s) THEN i
    ELSE first_conflict_same_date(events, i + 1, s, e)

\* lines 422-423, 479-480, 540-541: round up to the next hour
round_up_hour(t) ==
    IF Minute(t) > 0 THEN ReplaceMinute(t + MinutesPerHour, 0) ELSE t

\* lines 340-349: the free list of the range branch
RECURSIVE range_free_walk(_, _, _, _)
range_free_walk(events, i, current, acc) ==
    IF i > Len(events) THEN [current |-> current, slots |-> acc]
    ELSE range_free_walk(events, i + 1, events[i].end,
             IF current < events[i].start
             THEN Append(acc, Iv(current, events[i].start)) ELSE acc)

\* lines 311-359: the is_range branch
schedule_chat_range(events, start_time, end_time, createOk) ==
    LET slot == find_longest_available_slot(events, start_time, end_time)
    IN  IF ~IsNone(slot) /\ Val(slot).end - Val(slot).start >= MinutesPerHour
        THEN IF first_conflict(events, 1, Val(slot).start, Val(slot).end) = 0
             THEN create_attempt(Val(slot), createOk)
             ELSE Outcome(NoFreeTime, <<>>, <<>>)
        ELSE LET w == range_free_walk(events, 1, start_time, <<>>)
                 available_slots == IF w.current < end_time
                                    THEN Append(w.slots, Iv(w.current, end_time))
                                    ELSE w.slots
             IN  Outcome(NoFreeTime, <<>>, available_slots)

\* lines 409-440: the first search for a one-hour slot
RECURSIVE first_hour_loop(_, _, _)
first_hour_loop(events, current, end_time) ==
    IF ~(current < end_time /\ Hour(current) < BusinessEndHour) THEN None
    ELSE LET slot_end == current + MinutesPerHour
             i == first_conflict(events, 1, current, slot_end)
         IN  IF slot_end > end_time THEN None
             ELSE IF i = 0 THEN Some(Iv(current, slot_end))
             ELSE first_hour_loop(events,
                      round_up_hour(events[i].end) + MinutesPerHour, end_time)

\* lines 457-508: the second search, over the events sorted by start
RECURSIVE second_hour_loop(_, _, _, _)
second_hour_loop(sorted_events, current_time, start_time, afternoon_request) ==
    IF ~(Hour(current_time) < BusinessEndHour
         /\ DayOf(current_time) = DayOf(start_time)) THEN None
    ELSE IF Hour(current_time) < BusinessStartHour
            \/ (afternoon_request /\ Hour(current_time) < AfternoonStartHour)
    THEN second_hour_loop(sorted_events,
             ReplaceHour(current_time,
                 IF afternoon_request THEN AfternoonStartHour ELSE BusinessStartHour),
             start_time, afternoon_request)
    ELSE LET slot_end == current_time + MinutesPerHour
             i == first_conflict_same_date(sorted_events, 1, current_time, slot_end)
         IN  IF i = 0 THEN Some(Iv(current_time, slot_end))
             ELSE second_hour_loop(sorted_events,
                      round_up_hour(sorted_events[i].end) + MinutesPerHour,
                      start_time, afternoon_request)

\* lines 527-541: the display list built when no slot could be booked
RECURSIVE listing_walk(_, _, _, _, _)
listing_walk(sorted_events, i, current_time, afternoon_request, acc) ==
    IF i > Len(sorted_events) THEN [current_time |-> current_time, slots |-> acc]
    ELSE LET event == sorted_events[i]
             fits == current_time + MinutesPerHour <= event.start
                     /\ Hour(current_time) < BusinessEndHour
             slot_end == Min2(event.start, ReplaceHour(current_time, BusinessEndHour))
             keep == fits /\ (afternoon_request =>
                                 (Hour(current_time) >= AfternoonStartHour
                                  /\ current_time + MinutesPerHour <= slot_end))
         IN  listing_walk(sorted_events, i + 1,
                 round_up_hour(Max2(current_time, event.end)), afternoon_request,
                 IF keep THEN Append(acc, Iv(current_time, slot_end)) ELSE acc)

\* lines 519-558
no_slot_listing(sorted_events, start_time, afternoon_request) ==
    LET c0 == ReplaceMinute(start_time, 0)
        c1 == IF Hour(c0) < BusinessStartHour
              THEN ReplaceHour(c0, BusinessStartHour) ELSE c0
        w == listing_walk(sorted_events, 1, c1, afternoon_request, <<>>)
        slot_end == ReplaceHour(w.current_time, BusinessEndHour)
        tail == IF Hour(w.current_time) < BusinessEndHour
                   /\ (afternoon_request =>
                          (Hour(w.current_time) >= AfternoonStartHour
                           /\ w.current_time + MinutesPerHour <= slot_end))
                THEN Append(w.slots, Iv(w.current_time, slot_end))
                ELSE w.slots
    IN  Outcome(NoSlotListing, <<>>, tail)

\* lines 366-387: the search window when the message did not parse
unparsed_window(msg, t) ==
    IF ~IsNone(msg.date)
    THEN LET target_date == target_date_of(Val(msg.date), t)
         IN  Iv(ReplaceHourMinute(target_date,
                    IF msg.gogo THEN AfternoonStartHour ELSE BusinessStartHour, 0),
                ReplaceHourMinute(target_date, BusinessEndHour, 0))
    ELSE Iv(t, t + SearchDays * MinutesPerDay)

\* lines 400-558: the branch taken when parse_datetime_jp returned None
schedule_chat_unparsed(events, start_time, end_time, afternoon_request, createOk) ==
    LET floor == ReplaceMinute(start_time, 0)
        lower == IF afternoon_request THEN AfternoonStartHour ELSE BusinessStartHour
        current == IF Hour(floor) < lower THEN ReplaceHour(floor, lower) ELSE floor
        first == first_hour_loop(events, current, end_time)
        c1 == IF Hour(floor) < BusinessStartHour
              THEN ReplaceHour(floor, BusinessStartHour) ELSE floor
        current_time == IF afternoon_request /\ Hour(c1) < AfternoonStartHour
                        THEN ReplaceHour(c1, AfternoonStartHour) ELSE c1
        sorted_events == SortByStart(events)
        second == second_hour_loop(sorted_events, current_time, start_time,
                                   afternoon_request)
    IN  IF ~IsNone(first)
        THEN create_attempt(Val(first), createOk)
        ELSE IF ~IsNone(second)
        THEN create_attempt(Val(second), createOk)
        ELSE no_slot_listing(sorted_events, start_time, afternoon_request)

\* the timeMin/timeMax of the turn's events().list call (lines 302-308, 389-395)
chat_window(msg, t) ==
    LET parsed == parse_datetime_jp(msg, t)
    IN  IF ~IsNone(parsed) THEN Iv(Val(parsed).start, Val(parsed).end)
        ELSE unparsed_window(msg, t)

\* schedule_chat, lines 291-623, given the events the provider returned
schedule_chat(msg, events, t, createOk) ==
    LET parsed == parse_datetime_jp(msg, t)
        w == chat_window(msg, t)
    IN  IF ~IsNone(parsed)
        THEN schedule_chat_range(events, w.start, w.end, createOk)
        ELSE schedule_chat_unparsed(events, w.start, w.end, msg.gogo, createOk)

-----------------------------------------------------------------------------
(* app/claude_service.py.  A busy slot is given as ISO strings: its wall     *)
(* clock start and end and the offset they are written in (utc: a trailing  *)
(* "Z", otherwise "+09:00").                                                *)

JstOffsetMinutes == 540

Busy(s, e, utc) == [start |-> s, end |-> e, utc |-> utc]

\* datetime.fromisoformat(x.replace('Z', '+00:00')).astimezone(self.jst)
to_jst(wall, utc) == IF utc THEN wall + JstOffsetMinutes ELSE wall

busy_period(slot) == Iv(to_jst(slot.start, slot.utc), to_jst(slot.end, slot.utc))

\* the conflict check left out: any slot passes
no_conflict_skipped(slot_start, slot_end, busy_slots) == TRUE

\* lines 24-30: no busy slot overlaps [slot_start, slot_end)
no_conflict(slot_start, slot_end, busy_slots) ==
    \A k \in DOMAIN busy_slots :
        LET b == busy_period(busy_slots[k])
        IN  slot_end <= b.start \/ slot_start >= b.end

\* ClaudeService.validate_time_slot
validate_time_slot(slot_start, slot_end, busy_slots) ==
    /\ BusinessStartHour <= Hour(slot_start)
    /\ Hour(slot_start) < ClaudeBusinessEndHour
    /\ BusinessStartHour <= Hour(slot_end)
    /\ Hour(slot_end) <= ClaudeBusinessEndHour
    /\ slot_end - slot_start = MinutesPerHour
    /\ no_conflict(slot_start, slot_end, busy_slots)

\* lines 41-47
busy_periods_of(busy_slots) ==
    SortByStart([k \in DOMAIN busy_slots |-> busy_period(busy_slots[k])])

\* lines 61-66: index of the first busy period of the target date that starts
\* at or after current, or 0
RECURSIVE first_busy_index(_, _, _, _)
first_busy_index(busy_periods, i, current, target_date) ==
    IF i > Len(busy_periods) THEN 0
    ELSE IF DayOf(busy_periods[i].start) = target_date
            /\ busy_periods[i].start >= current THEN i
    ELSE first_busy_index(busy_periods, i + 1, current, target_date)

\* lines 88-94: index of the first busy period of the target date that
\* overlaps [current, slot_end), or 0
RECURSIVE overlap_index(_, _, _, _, _)
overlap_index(busy_periods, i, current, slot_end, target_date) ==
    IF i > Len(busy_periods) THEN 0
    ELSE IF DayOf(busy_periods[i].start) = target_date
            /\ busy_periods[i].start < slot_end
            /\ busy_periods[i].end > current THEN i
    ELSE overlap_index(busy_periods, i + 1, current, slot_end, target_date)

\* the cursor left where it is
next_hour_stalled(current) == current

\* the cursor moved on by half an hour
next_hour_half(current) == current + 30

\* line 105: current += timedelta(hours=1)
next_hour(current) == current + MinutesPerHour

\* lines 73-105: one pass of the search loop from the test of the while
\* condition on; done when the loop is left
loop_step(busy_slots, busy_periods, current, end_time, target_date, available_slots) ==
    LET slot_end == current + MinutesPerHour
        i == overlap_index(busy_periods, 1, current, slot_end, target_date)
        left == [done |-> TRUE, current |-> current,
                 available_slots |-> available_slots]
        on(c, slots) == [done |-> FALSE, current |-> c, available_slots |-> slots]
    IN  IF ~(current + MinutesPerHour <= end_time) THEN left
        ELSE IF DayOf(current) # target_date THEN left
        ELSE IF Hour(current) < BusinessStartHour
        THEN on(ReplaceHourMinute(current, BusinessStartHour, 0), available_slots)
        ELSE IF Hour(slot_end) > ClaudeBusinessEndHour THEN left
        ELSE IF i # 0 THEN on(busy_periods[i].end, available_slots)
        ELSE on(next_hour(current),
                IF validate_time_slot(current, slot_end, busy_slots)
                THEN Append(available_slots, Iv(current, slot_end))
                ELSE available_slots)

\* lines 73-107: the search loop
RECURSIVE slots_loop(_, _, _, _, _, _)
slots_loop(busy_slots, busy_periods, current, end_time, target_date, available_slots) ==
    LET st == loop_step(busy_slots, busy_periods, current, end_time, target_date,
                        available_slots)
    IN  IF st.done THEN st.available_slots
        ELSE slots_loop(busy_slots, busy_periods, st.current, end_time,
                        target_date, st.available_slots)

\* ClaudeService.find_available_slots
find_available_slots(busy_slots, start_time, end_time0) ==
    LET busy_periods == busy_periods_of(busy_slots)
        current0 == Max2(start_time, ReplaceHourMinute(start_time, BusinessStartHour, 0))
        end_time == Min2(end_time0, ReplaceHourMinute(end_time0, ClaudeBusinessEndHour, 0))
        target_date == DayOf(current0)
        fb == first_busy_index(busy_periods, 1, current0, target_date)
        current == IF fb # 0 THEN busy_periods[fb].end ELSE current0
    IN  slots_loop(busy_slots, busy_periods, current, end_time, target_date, <<>>)

\* ClaudeService.analyze_free_slots: the suggested_time, None or Some(slot)
analyze_free_slots(busy_slots, start_time, end_time) ==
    LET available_slots == find_available_slots(busy_slots, start_time, end_time)
    IN  IF available_slots = <<>> THEN None ELSE Some(available_slots[1])

-----------------------------------------------------------------------------
(* app/main.py.  A message to chat_schedule is modelled by what its regular  *)
(* expressions extract:                                                     *)
(*   kind   "free"      X月Y日の空いている時間にTを登録して                   *)
(*          "explicit"  X月Y日のA時からB時までTを登録して                     *)
(*          "avail"     any other text with X月Y日, hours if A時からB時      *)
(*          "nodate"    a text without X月Y日                                *)
(* An event of the provider is timed ([start, end, allday |-> FALSE]) or    *)
(* all-day (start and end are the midnights of its start and end dates).    *)

MainMsg(kind, date, hours) == [kind |-> kind, date |-> date, hours |-> hours]

Ev(s, e, allday) == [start |-> s, end |-> e, allday |-> allday]

LastMinuteOfDay == 1439
MainSlotHours == 1

SlotCreated == "slot_registered"     \* X月Y日 HH:MM〜HH:MMに「T」を登録しました
CreateFailed == "create_failed"      \* 申し訳ありません。予定の登録ができませんでした
NoSlotThatDay == "no_slot_that_day"  \* X月Y日には空き時間が見つかりませんでした。
NoFreeThatDay == "no_free_that_day"  \* X月Y日は空き時間がありません。
SlotList == "slot_list"              \* X月Y日 + HH:MM〜HH:MM lines
AskDate == "ask_date"                \* 確認したい日付を指定してください。

\* get_calendar_events, lines 172-200: an event converted to JST datetimes
converted_event(event) ==
    IF event.allday
    THEN Iv(event.start, event.end + LastMinuteOfDay)
    ELSE Iv(event.start, event.end)

\* get_calendar_events, lines 143-208: the events of the calendars whose
\* events().list call succeeded, in calendar order
RECURSIVE get_calendar_events(_, _, _)
get_calendar_events(lists, ids, failing) ==
    IF ids = <<>> THEN <<>>
    ELSE LET id == Head(ids)
             mine == IF id \in failing THEN <<>>
                     ELSE [k \in DOMAIN lists[id] |-> converted_event(lists[id][k])]
         IN  mine \o get_calendar_events(lists, Tail(ids), failing)

\* lines 349-355, 414-417, 441-448: now.replace(year, month, day), the year
\* being the next one when the month is before now's
main_target_date(date, t) ==
    LET year == IF date[1] < MonthOf(t) THEN YearOf(t) + 1 ELSE YearOf(t)
    IN  DateTime(year, date[1], date[2], Hour(t), Minute(t))

\* strftime('%H:%M') of a datetime, read back by create_calendar_event
\* (lines 98-109) as a time of the requested date
on_date(target_date, t) == Midnight(target_date) + (t % MinutesPerDay)

\* lines 376-383: the walk over the events sorted by start; Some(start of
\* the slot) once a gap of an hour is found
RECURSIVE free_slot_walk(_, _, _, _)
free_slot_walk(sorted_events, i, current_time, business_end) ==
    IF i > Len(sorted_events) THEN [found |-> None, current_time |-> current_time]
    ELSE LET event == sorted_events[i]
         IN  IF event.start > current_time /\ current_time < business_end
                /\ event.start - current_time >= MainSlotHours * MinutesPerHour
             THEN [found |-> Some(current_time), current_time |-> current_time]
             ELSE free_slot_walk(sorted_events, i + 1,
                      Max2(current_time, event.end), business_end)

\* lines 344-407: the "free time" branch, given the fetched events
chat_schedule_free(date, events, t, createOk) ==
    LET target_date == main_target_date(date, t)
        end_time == ReplaceHourMinute(target_date, 23, 59)
        business_start == ReplaceHourMinute(target_date, BusinessStartHour, 0)
        business_end == ReplaceHourMinute(target_date, BusinessEndHour, 0)
        w == free_slot_walk(SortByStart(events), 1, business_start, business_end)
        event_start ==
            IF events = <<>> THEN Some(business_start)
            ELSE IF ~IsNone(w.found) THEN w.found
            ELSE IF w.current_time < end_time
            THEN Some(Max2(w.current_time, business_start))
            ELSE None
    IN  IF IsNone(event_start) THEN Outcome(NoSlotThatDay, <<>>, <<>>)
        ELSE Outcome(IF createOk THEN SlotCreated ELSE CreateFailed,
                 <<Iv(on_date(target_date, Val(event_start)),
                      on_date(target_date,
                              Val(event_start) + MainSlotHours * MinutesPerHour))>>,
                 <<>>)

\* lines 409-432: the explicit-hours branch; datetime.strptime('%H:%M')
\* rejects an hour above 23 before anything is created
chat_schedule_explicit(date, hours, t, createOk) ==
    LET year == IF date[1] < MonthOf(t) THEN YearOf(t) + 1 ELSE YearOf(t)
        day == DateTime(year, date[1], date[2], 0, 0)
    IN  IF hours[1] > 23 \/ hours[2] > 23 THEN Outcome(CreateFailed, <<>>, <<>>)
        ELSE Outcome(IF createOk THEN SlotCreated ELSE CreateFailed,
                 <<Iv(day + hours[1] * MinutesPerHour,
                      day + hours[2] * MinutesPerHour)>>, <<>>)

\* lines 504-528: the walk of the availability branch; end_time_jst lies
\* less than a minute after the whole minute stop
RECURSIVE avail_walk(_, _, _, _, _)
avail_walk(events, i, current_time, stop, acc) ==
    IF i > Len(events) THEN [current_time |-> current_time, slots |-> acc]
    ELSE LET event == events[i]
         IN  IF event.end <= current_time
             THEN avail_walk(events, i + 1, current_time, stop, acc)
             ELSE IF event.start > stop
             THEN [current_time |-> current_time, slots |-> acc]
             ELSE avail_walk(events, i + 1, Max2(current_time, event.end), stop,
                      IF current_time < event.start
                         /\ event.start - current_time >= MinDisplayMinutes
                      THEN Append(acc, Iv(current_time, event.start)) ELSE acc)

\* the availability answer without the filter of lines 541-545
meaningful_all(slots) == slots

\* lines 541-545
meaningful(slots) == SelectSeq(slots, LAMBDA x : x.end - x.start >= MinDisplayMinutes)

\* lines 448-460: the window of the availability branch: the first minute
\* and the last whole minute of the search
avail_window(date, hours, t) ==
    LET target_date == main_target_date(date, t)
    IN  IF IsNone(hours)
        THEN Iv(ReplaceHourMinute(target_date, 0, 0),
                ReplaceHourMinute(target_date, 23, 59))
        ELSE Iv(ReplaceHourMinute(target_date, Val(hours)[1], 0),
                ReplaceHourMinute(target_date, Val(hours)[2], 59))

\* lines 481-558: the availability branch, given the fetched events
chat_schedule_avail(date, hours, events, t) ==
    LET win == avail_window(date, hours, t)
        current_time == win.start
        stop == IF IsNone(hours) THEN win.end
                ELSE ReplaceHourMinute(win.end, Val(hours)[2], 0)
        w == avail_walk(SortByStart(events), 1, current_time, stop, <<>>)
        available_slots ==
            IF events = <<>> THEN <<Iv(current_time, stop)>>
            ELSE IF w.current_time <= stop
                    /\ stop - w.current_time >= MinDisplayMinutes
            THEN Append(w.slots, Iv(w.current_time, stop))
            ELSE w.slots
        meaningful_slots == meaningful(available_slots)
    IN  IF meaningful_slots = <<>> THEN Outcome(NoFreeThatDay, <<>>, <<>>)
        ELSE Outcome(SlotList, <<>>, meaningful_slots)

\* the time_min/time_max handed to get_calendar_events (lines 356-360, 467)
main_window(msg, t) ==
    IF msg.kind = "free"
    THEN LET target_date == main_target_date(Val(msg.date), t)
         IN  Iv(ReplaceHourMinute(target_date, 0, 0),
                ReplaceHourMinute(target_date, 23, 59))
    ELSE LET win == avail_window(Val(msg.date), msg.hours, t)
         IN  Iv(win.start, win.end + 1)

\* chat_schedule, lines 316-565, given the events get_calendar_events returned
chat_schedule(msg, events, t, createOk) ==
    IF msg.kind = "free" THEN chat_schedule_free(Val(msg.date), events, t, createOk)
    ELSE IF msg.kind = "explicit"
    THEN chat_schedule_explicit(Val(msg.date), Val(msg.hours), t, createOk)
    ELSE IF msg.kind = "nodate" THEN Outcome(AskDate, <<>>, <<>>)
    ELSE chat_schedule_avail(Val(msg.date), msg.hours, events, t)

-----------------------------------------------------------------------------
(* The calendar provider and the transient store, as the handlers see them. *)

\* events().list(timeMin, timeMax, singleEvents=True, orderBy='startTime'):
\* the timed events that intersect the window, in ascending start order;
\* the order of events with equal starts is the provider's choice
EarliestOf(S) == {e \in S : \A f \in S : e.start <= f.start}

RECURSIVE StartOrders(_)
StartOrders(S) ==
    IF S = {} THEN {<<>>}
    ELSE UNION {{<<e>> \o rest : rest \in StartOrders(S \ {e})} : e \in EarliestOf(S)}

ListEvents(cal, timeMin, timeMax) ==
    StartOrders({e \in cal : e.end > timeMin /\ e.start < timeMax})

\* pending_slot:{user} and available_slots:{user} of spec section 6, and the
\* stored credentials
Redis(pending_slot, available_slots, credentials) ==
    [pending_slot |-> pending_slot, available_slots |-> available_slots,
     credentials |-> credentials]

\* one handled message, as recorded in the log: the events the handler was
\* given, what it answered, created and listed, whether the insert succeeded,
\* the store before and after, the calendars whose events().list call
\* failed, and the events that were on the calendars when the turn began
Turn(handler, msg, fetched, out, ok, before, after, failed, present) ==
    [handler |-> handler, msg |-> msg, fetched |-> fetched,
     response |-> out.response, created |-> out.created, listed |-> out.listed,
     ok |-> ok, before |-> before, after |-> after, failed |-> failed,
     present |-> present]

-----------------------------------------------------------------------------
(* Bounds and inputs of the model.                                          *)

MaxEvents == 2
MaxTurns == 2

\* "today" is 8 February
Today(h, mi) == DateTime(0, 2, 8, h, mi)
Yesterday(h, mi) == DateTime(0, 2, 7, h, mi)
Tomorrow(h, mi) == DateTime(0, 2, 9, h, mi)

NowSet == {Today(10, 30), Today(8, 0)}

EventPool ==
    { Iv(Today(10, 0), Today(11, 0)),
      Iv(Today(9, 0), Today(17, 0)),
      Iv(Yesterday(20, 0), Today(18, 0)),
      Iv(Today(11, 0), Today(14, 30)),
      Iv(Tomorrow(9, 0), Tomorrow(16, 30)),
      Iv(Today(10, 15), Today(15, 0)) }

Calendars == {S \in SUBSET EventPool : Cardinality(S) <= MaxEvents}

PendingPool == {None, Some(Iv(Today(13, 0), Today(14, 0)))}

Hai == Msg("hai", None, FALSE, None, None, "unknown")
Iie == Msg("iie", None, FALSE, None, None, "unknown")

\* available_slots:{user}: the list an earlier availability answer displayed
SelectionPool ==
    {None, Some(<<Iv(Today(10, 0), Today(11, 0)), Iv(Today(14, 0), Today(15, 0))>>)}

\* N番で打ち合わせを入れてください: the N-th slot of the displayed list
Select(n) ==
    [text |-> "select", date |-> None, gogo |-> FALSE, tilde |-> None,
     kara |-> None, intent |-> "event_creation", index |-> n]

ChatMessages ==
    { Hai, Iie,
      \* 2番で打ち合わせを入れてください, 3番で会議を入れてください
      Select(2), Select(3),
      \* 10時〜15時の空き時間を教えて
      Msg("req", None, FALSE, Some(<<10, 15>>), None, "availability_check"),
      \* 10時〜15時に会議を入れて
      Msg("req", None, FALSE, Some(<<10, 15>>), None, "event_creation"),
      \* 9時〜17時の空き時間を教えて
      Msg("req", None, FALSE, Some(<<9, 17>>), None, "availability_check"),
      \* 午後の空いてる時間に打ち合わせを入れて
      Msg("req", None, TRUE, None, None, "event_creation"),
      \* 2月9日に会議を入れて
      Msg("req", Some(<<2, 9>>), FALSE, None, None, "event_creation"),
      \* 2月9日の13時から15時に会議を入れて
      Msg("req", Some(<<2, 9>>), FALSE, None, Some(<<13, 0, 15, 0>>), "event_creation"),
      \* 2月9日16:30から17:30に会議を入れて
      Msg("req", Some(<<2, 9>>), FALSE, None, Some(<<16, 30, 17, 30>>), "event_creation") }

-----------------------------------------------------------------------------
(* The state machine of chat.py: one action per handled message.            *)

CsIdle == [pc |-> "idle"]

InitChat ==
    /\ now \in NowSet
    /\ \E cal \in Calendars : calendars = [primary |-> cal, other |-> {}]
    /\ \E p \in PendingPool, a \in SelectionPool : redis = Redis(p, a, TRUE)
    /\ log = <<>>
    /\ cs = CsIdle

\* POST /schedule: the provider answers the list call and, if the handler
\* gets that far, the insert call (createOk: events().insert succeeded)
ScheduleChat ==
    /\ Len(log) < MaxTurns
    /\ \E msg \in ChatMessages, createOk \in BOOLEAN :
         LET w == chat_window(msg, now)
         IN  /\ w.start < w.end
             /\ \E fetched \in ListEvents(calendars.primary, w.start, w.end) :
                  LET out == schedule_chat(msg, fetched, now, createOk)
                      ok == createOk /\ out.created # <<>>
                  IN  /\ (out.created = <<>> => createOk)
                      /\ log' = Append(log, Turn("chat", msg, fetched, out, ok,
                                                 redis, redis, {},
                                                 calendars.primary))
                      /\ calendars' = IF ok
                                      THEN [calendars EXCEPT !.primary =
                                               @ \cup {out.created[1]}]
                                      ELSE calendars
    /\ UNCHANGED <<now, redis, cs>>

\* POST /schedule when events().list raises (an empty or inverted window, or
\* the provider is unreachable): line 618 turns it into HTTPException(500)
ScheduleChatReadFails ==
    /\ Len(log) < MaxTurns
    /\ \E msg \in ChatMessages :
         log' = Append(log, Turn("chat", msg, <<>>, Outcome(Error500, <<>>, <<>>),
                                 FALSE, redis, redis, {"primary"},
                                 calendars.primary))
    /\ UNCHANGED <<now, calendars, redis, cs>>

NextChat == ScheduleChat \/ ScheduleChatReadFails

SpecChat == InitChat /\ [][NextChat]_vars

\* the handling of a single message: the first turn of SpecChat
NextChatTurn == log = <<>> /\ NextChat

SpecChatTurn == InitChat /\ [][NextChatTurn]_vars

-----------------------------------------------------------------------------
(* Claims about chat.schedule_chat, checked under SpecChat.                 *)

ChatTurns == {i \in 1..Len(log) : log[i].handler = "chat"}

\* the provider answered every call of turn i
Served(i) == log[i].response # Error500 /\ (log[i].created # <<>> => log[i].ok)

NoPending(r) == IsNone(r.pending_slot) /\ IsNone(r.available_slots)

\* C1 (P4, idempotent confirmation): with a PendingBooking stored, two
\* consecutive "はい" messages lead to exactly one createEvent call: the first
\* books the pending slot and clears the PendingBooking, the second finds no
\* pending record, is answered with the format-help message and books nothing.
C1_TwoYesOneCreate ==
    (/\ Len(log) = 2
     /\ log[1].msg = Hai /\ log[2].msg = Hai
     /\ ~IsNone(log[1].before.pending_slot)
     /\ Served(1) /\ Served(2))
    => /\ log[1].created = <<Val(log[1].before.pending_slot)>>
       /\ IsNone(log[1].after.pending_slot)
       /\ log[2].created = <<>>
       /\ log[2].response = FormatHelp

\* C2: an event-creation request is answered in its own turn with a
\* confirmation prompt and a stored PendingBooking, never with a createEvent
\* call; createEvent is only issued by a turn whose message is "はい" while a
\* PendingBooking exists.
C2_ProposeBeforeCreate ==
    \A i \in ChatTurns :
        /\ (log[i].msg.intent = "event_creation" /\ Served(i)) =>
               /\ log[i].created = <<>>
               /\ (log[i].response = ConfirmPrompt
                      <=> ~IsNone(log[i].after.pending_slot))
        /\ log[i].created # <<>> =>
               (log[i].msg = Hai /\ ~IsNone(log[i].before.pending_slot))

\* C3 (P1, no double-booking): in every turn of schedule_chat, the interval
\* passed to createEvent and every interval listed as free overlap none of
\* the events fetched in that turn.
C3_ChatSlotsAvoidFetched ==
    \A i \in ChatTurns :
        \A e \in {log[i].fetched[k] : k \in DOMAIN log[i].fetched} :
            /\ \A k \in DOMAIN log[i].created : ~Overlaps(log[i].created[k], e)
            /\ \A k \in DOMAIN log[i].listed : ~Overlaps(log[i].listed[k], e)

\* C6: a message parse_datetime_jp cannot parse, arriving while no Pending
\* record exists, is answered with the format-help message, issues no
\* createEvent call and writes no Pending record.
C6_UnparseableIsHelpOnly ==
    \A i \in ChatTurns :
        (/\ IsNone(parse_datetime_jp(log[i].msg, now))
         /\ NoPending(log[i].before)
         /\ Served(i))
        => /\ log[i].response = FormatHelp
           /\ log[i].created = <<>>
           /\ log[i].after = log[i].before

\* C7: a message that only asks for availability is answered with a list of
\* free slots or a no-availability message and never leads to createEvent.
C7_AvailabilityNeverCreates ==
    \A i \in ChatTurns :
        (log[i].msg.intent = "availability_check" /\ Served(i))
            => log[i].created = <<>>

\* C9: when createEvent fails after a "はい" confirmation, the PendingBooking
\* is cleared, the reply is the generic failure message, and a following
\* "はい" creates nothing.
C9_FailedCreateClearsPending ==
    \A i \in ChatTurns :
        (/\ log[i].msg = Hai
         /\ ~IsNone(log[i].before.pending_slot)
         /\ log[i].created # <<>> /\ ~log[i].ok)
        => /\ IsNone(log[i].after.pending_slot)
           /\ log[i].response = RegisterFailed
           /\ (i + 1 \in ChatTurns /\ log[i + 1].msg = Hai)
                  => log[i + 1].created = <<>>

\* C10: with a PendingBooking stored, "いいえ" deletes the PendingBooking and
\* any PendingSelection, is answered with the cancellation acknowledgement
\* and issues no createEvent call.
C10_NoCancelsPending ==
    \A i \in ChatTurns :
        (/\ log[i].msg = Iie
         /\ ~IsNone(log[i].before.pending_slot)
         /\ Served(i))
        => /\ NoPending(log[i].after)
           /\ log[i].response = CancelAck
           /\ log[i].created = <<>>

\* the turns whose message selects slot number n of a stored, displayed list
Selecting(i) ==
    /\ log[i].msg.text = "select"
    /\ ~IsNone(log[i].before.available_slots)
    /\ Served(i)

\* C11 (P5, index round-trip): with a PendingSelection of N slots stored, a
\* message selecting index n (1 <= n <= N) for an event creation writes a
\* PendingBooking with exactly the start and end of the n-th stored slot,
\* whatever the calendar holds.
C11_SelectionRoundTrip ==
    \A i \in ChatTurns :
        (/\ Selecting(i)
         /\ log[i].msg.index \in 1..Len(Val(log[i].before.available_slots)))
        => /\ log[i].after.pending_slot =
                  Some(Val(log[i].before.available_slots)[log[i].msg.index])
           /\ log[i].created = <<>>

\* C12: with a PendingSelection of N slots stored, a message selecting an
\* index outside 1..N is answered with "choose a number between 1 and N",
\* leaves the PendingSelection unchanged, writes no PendingBooking and issues
\* no createEvent call.
C12_BadIndexIsRefused ==
    \A i \in ChatTurns :
        (/\ Selecting(i)
         /\ log[i].msg.index \notin 1..Len(Val(log[i].before.available_slots)))
        => /\ log[i].response = ChooseNumber
           /\ log[i].after = log[i].before
           /\ log[i].created = <<>>

\* C18 (P2, duration floor): every slot schedule_chat lists as free lasts at
\* least the 30-minute display minimum.
C18_ChatListedSlotsLongEnough ==
    \A i \in ChatTurns :
        \A k \in DOMAIN log[i].listed :
            log[i].listed[k].end - log[i].listed[k].start >= MinDisplayMinutes

\* [09:00, 17:00] of the day on which interval iv starts
InBusinessDay(iv) ==
    /\ ReplaceHourMinute(iv.start, BusinessStartHour, 0) <= iv.start
    /\ iv.end <= ReplaceHourMinute(iv.start, BusinessEndHour, 0)

\* C15 (P3, business-hours containment): every interval schedule_chat passes
\* to createEvent starts at or after 09:00 and ends at or before 17:00 JST of
\* the same calendar day.
C15_ChatCreatesInBusinessHours ==
    \A i \in ChatTurns :
        \A k \in DOMAIN log[i].created : InBusinessDay(log[i].created[k])

\* C23: each message handled by schedule_chat leads to at most one
\* createEvent call, on every path through the handler; a createEvent that
\* fails is not retried within the turn.
C23_AtMostOneCreatePerTurn ==
    \A i \in ChatTurns : Len(log[i].created) <= 1

\* C23 witness: a turn whose createEvent call failed
C23_Witness ==
    \E i \in ChatTurns :
        /\ log[i].created # <<>>
        /\ ~log[i].ok
        /\ log[i].response = RegisterFailed

\* turn i took the branch of lines 362-558: parse_datetime_jp returned None
Fallback(i) == IsNone(parse_datetime_jp(log[i].msg, now))

\* where the fallback search of turn i starts: the start of its window with
\* the minutes dropped, raised to 09:00, or to 13:00 for an afternoon request
\* (lines 401-407)
SearchStart(i) ==
    LET floor == ReplaceMinute(unparsed_window(log[i].msg, now).start, 0)
        lower == IF log[i].msg.gogo THEN AfternoonStartHour ELSE BusinessStartHour
    IN  IF Hour(floor) < lower THEN ReplaceHour(floor, lower) ELSE floor

\* the hour-aligned one-hour intervals from the search start of turn i to
\* 17:00 of that day, inside its window, that overlap no fetched event
FreeHours(i) ==
    {iv \in {Iv(ReplaceHourMinute(SearchStart(i), h, 0),
                ReplaceHourMinute(SearchStart(i), h + 1, 0)) :
                 h \in BusinessStartHour..(BusinessEndHour - 1)} :
        /\ SearchStart(i) <= iv.start
        /\ iv.end <= unparsed_window(log[i].msg, now).end
        /\ \A k \in DOMAIN log[i].fetched : ~Overlaps(iv, log[i].fetched[k])}

\* C24: when schedule_chat falls back to booking the first available
\* one-hour slot, the slot it books is the earliest hour-aligned one-hour
\* interval, at or after the search start and ending by 17:00 of that day,
\* that overlaps no fetched event.
C24_FallbackBooksEarliestFreeHour ==
    \A i \in ChatTurns :
        (Fallback(i) /\ log[i].created # <<>>) =>
            /\ log[i].created[1] \in FreeHours(i)
            /\ \A iv \in FreeHours(i) : log[i].created[1].start <= iv.start

\* C25: schedule_chat never issues createEvent for an interval that starts
\* before the current time of the request.
C25_NeverBooksThePast ==
    \A i \in ChatTurns :
        \A k \in DOMAIN log[i].created : now <= log[i].created[k].start

-----------------------------------------------------------------------------
(* ClaudeService as a state machine: a call is prepared with its arguments  *)
(* (Init), then find_available_slots or analyze_free_slots runs on them.    *)

MaxBusy == 2

BusyPool ==
    { Busy(Today(10, 0), Today(11, 0), FALSE),
      Busy(Today(14, 0), Today(15, 30), FALSE),
      Busy(Today(4, 0), Today(5, 0), TRUE),            \* 13:00-14:00 JST
      Busy(Yesterday(22, 0), Today(9, 30), FALSE),     \* began the day before
      Busy(Today(16, 0), Today(16, 0), FALSE),         \* zero length
      Busy(Today(12, 0), Today(11, 30), FALSE),        \* inverted
      Busy(Today(12, 0), Today(13, 0), FALSE) }

BusyLists == UNION {[1..n -> BusyPool] : n \in 0..MaxBusy}

ClaudeWindows ==
    { Iv(Today(9, 0), Today(17, 0)),
      Iv(Today(8, 0), Today(19, 0)),
      Iv(Today(13, 0), Today(16, 0)),
      Iv(Today(9, 30), Today(12, 0)),
      Iv(Today(16, 30), Tomorrow(10, 0)),
      Iv(Today(10, 30), Today(17, 0)) }

InitClaude ==
    /\ now \in {Today(10, 30)}
    /\ calendars = [primary |-> {}, other |-> {}]
    /\ redis = Redis(None, None, TRUE)
    /\ log = <<>>
    /\ \E busy \in BusyLists, w \in ClaudeWindows :
         cs = [pc |-> "ready", busy_slots |-> busy, start_time |-> w.start,
               end_time |-> w.end]

FindAvailableSlots ==
    /\ cs.pc = "ready"
    /\ cs' = [pc |-> "found", busy_slots |-> cs.busy_slots,
              start_time |-> cs.start_time, end_time |-> cs.end_time,
              slots |-> find_available_slots(cs.busy_slots, cs.start_time,
                                             cs.end_time)]
    /\ UNCHANGED <<now, calendars, redis, log>>

AnalyzeFreeSlots ==
    /\ cs.pc = "ready"
    /\ cs' = [pc |-> "analyzed", busy_slots |-> cs.busy_slots,
              start_time |-> cs.start_time, end_time |-> cs.end_time,
              suggested_time |-> analyze_free_slots(cs.busy_slots, cs.start_time,
                                                    cs.end_time)]
    /\ UNCHANGED <<now, calendars, redis, log>>

NextClaude == FindAvailableSlots \/ AnalyzeFreeSlots

SpecClaude == InitClaude /\ [][NextClaude]_vars

-----------------------------------------------------------------------------
(* Claims about ClaudeService, checked under SpecClaude.                    *)

BusyPeriods == {busy_period(cs.busy_slots[k]) : k \in DOMAIN cs.busy_slots}

\* C4 (P1, no double-booking): every slot find_available_slots returns, and
\* the suggested_time of analyze_free_slots, overlaps no busy interval of the
\* input (half-open overlap).
C4_ClaudeSlotsAvoidBusy ==
    /\ cs.pc = "found" =>
           \A k \in DOMAIN cs.slots :
               \A b \in BusyPeriods : ~Overlaps(cs.slots[k], b)
    /\ (cs.pc = "analyzed" /\ ~IsNone(cs.suggested_time)) =>
           \A b \in BusyPeriods : ~Overlaps(Val(cs.suggested_time), b)

\* the window clipped to business hours, lines 50-57
ClaudeClipped ==
    Iv(Max2(cs.start_time, ReplaceHourMinute(cs.start_time, BusinessStartHour, 0)),
       Min2(cs.end_time, ReplaceHourMinute(cs.end_time, ClaudeBusinessEndHour, 0)))

\* the starts of the one-hour intervals of the clipped window that overlap
\* no busy period; the earliest of them is the window start or a busy end
FreeHourStarts ==
    LET w == ClaudeClipped
        points == {w.start} \cup {b.end : b \in BusyPeriods}
    IN  {x \in points :
            /\ w.start <= x /\ x + MinutesPerHour <= w.end
            /\ \A b \in BusyPeriods : ~Overlaps(Iv(x, x + MinutesPerHour), b)}

\* C14: when the clipped window of a single day holds a free interval of at
\* least one hour, find_available_slots returns a non-empty list whose first
\* slot begins where the earliest such interval begins (the gap before the
\* first busy interval included), and analyze_free_slots suggests that slot.
C14_EarliestFreeSlotFirst ==
    (/\ DayOf(cs.start_time) = DayOf(cs.end_time)
     /\ FreeHourStarts # {})
    => LET x == CHOOSE y \in FreeHourStarts : \A z \in FreeHourStarts : y <= z
       IN  /\ cs.pc = "found" =>
                  (cs.slots # <<>> /\ cs.slots[1].start = x)
           /\ cs.pc = "analyzed" =>
                  cs.suggested_time = Some(Iv(x, x + MinutesPerHour))

\* C16 (P3, business-hours containment): every slot find_available_slots
\* returns starts at or after 09:00 and ends at or before 18:00 JST on the
\* calendar day of the window start.
C16_ClaudeSlotsInBusinessHours ==
    cs.pc = "found" =>
        \A k \in DOMAIN cs.slots :
            /\ ReplaceHourMinute(cs.start_time, BusinessStartHour, 0) <= cs.slots[k].start
            /\ cs.slots[k].end <= ReplaceHourMinute(cs.start_time, ClaudeBusinessEndHour, 0)

\* the one-hour gaps that lie exactly between two busy periods, inside the
\* clipped window of a single day, and that no busy period overlaps
TouchingGaps ==
    {g \in {Iv(a.end, b.start) : a \in BusyPeriods, b \in BusyPeriods} :
        /\ \E a \in BusyPeriods : a.start < a.end /\ a.end = g.start
        /\ \E b \in BusyPeriods : b.start < b.end /\ b.start = g.end
        /\ g.end - g.start = MinutesPerHour
        /\ DayOf(cs.start_time) = DayOf(cs.end_time)
        /\ ClaudeClipped.start <= g.start /\ g.end <= ClaudeClipped.end
        /\ \A c \in BusyPeriods : ~Overlaps(g, c)}

\* C21 (half-open overlap): a one-hour gap that starts exactly when one busy
\* interval ends and ends exactly when the next begins is returned by
\* find_available_slots as a slot.
C21_TouchingGapIsReturned ==
    cs.pc = "found" =>
        \A g \in TouchingGaps : \E k \in DOMAIN cs.slots : cs.slots[k] = g

\* C29: the list find_available_slots returns is strictly ascending by
\* start, its slots are pairwise non-overlapping, and every slot is exactly
\* one hour long.
C29_SlotsAscendingDisjointOneHour ==
    cs.pc = "found" =>
        /\ \A k \in DOMAIN cs.slots :
               cs.slots[k].end - cs.slots[k].start = MinutesPerHour
        /\ \A j \in DOMAIN cs.slots : \A k \in DOMAIN cs.slots :
               j < k => /\ cs.slots[j].start < cs.slots[k].start
                        /\ ~Overlaps(cs.slots[j], cs.slots[k])

\* C29 witness: a call returned slots on both sides of a busy period that
\* does not end on the hour
C29_Witness ==
    /\ cs.pc = "found"
    /\ Len(cs.slots) >= 3
    /\ \E k \in DOMAIN cs.slots : Minute(cs.slots[k].start) # 0
    /\ \E j \in DOMAIN cs.slots : \E k \in DOMAIN cs.slots :
           \E b \in BusyPeriods :
               cs.slots[j].end <= b.start /\ b.start < b.end
                   /\ b.end <= cs.slots[k].start

\* C4 witness: a call with busy slots inside the window returned a slot
C4_Witness ==
    /\ cs.pc = "found"
    /\ cs.slots # <<>>
    /\ \E b \in BusyPeriods :
           b.start < b.end /\ cs.start_time < b.end /\ b.start < cs.end_time

-----------------------------------------------------------------------------
(* The state machine of main.py: one action per POST /chat/schedule.        *)

MaxMainTurns == 1

CalendarIds == <<"primary", "other">>
CalendarIdSet == {CalendarIds[k] : k \in DOMAIN CalendarIds}

MainEventPool ==
    { Ev(Today(10, 0), Today(11, 0), FALSE),
      Ev(Today(9, 0), Today(17, 0), FALSE),
      Ev(Today(9, 0), Today(9, 40), FALSE),
      Ev(Today(16, 30), Today(23, 30), FALSE),
      Ev(Today(0, 0), Tomorrow(0, 0), TRUE) }

MainCalendars ==
    {c \in [CalendarIdSet -> SUBSET MainEventPool] :
        /\ c.primary \cap c.other = {}
        /\ Cardinality(c.primary \cup c.other) <= MaxEvents}

MainMessages ==
    { \* 2月8日の空いている時間に会議を登録して
      MainMsg("free", Some(<<2, 8>>), None),
      \* 2月9日の空いている時間に会議を登録して
      MainMsg("free", Some(<<2, 9>>), None),
      \* 2月8日の10時から11時まで会議を登録して
      MainMsg("explicit", Some(<<2, 8>>), Some(<<10, 11>>)),
      \* 2月8日の15時から14時まで会議を登録して
      MainMsg("explicit", Some(<<2, 8>>), Some(<<15, 14>>)),
      \* 2月8日の10時から25時まで会議を登録して
      MainMsg("explicit", Some(<<2, 8>>), Some(<<10, 25>>)),
      \* 2月8日の空き時間を教えて
      MainMsg("avail", Some(<<2, 8>>), None),
      \* 2月8日の9時から17時の空き時間を教えて
      MainMsg("avail", Some(<<2, 8>>), Some(<<9, 17>>)),
      \* 2月8日の9時から9時の空き時間を教えて
      MainMsg("avail", Some(<<2, 8>>), Some(<<9, 9>>)),
      \* 1月15日の空き時間を教えて
      MainMsg("avail", Some(<<1, 15>>), None),
      \* 空き時間を教えて
      MainMsg("nodate", None, None) }

Fetches(msg) == msg.kind \in {"free", "avail"}

\* the events on the calendars, as intervals
Present(cals) == {Iv(e.start, e.end) : e \in cals.primary \cup cals.other}

InitMain ==
    /\ now \in NowSet
    /\ calendars \in MainCalendars
    /\ \E c \in BOOLEAN : redis = Redis(None, None, c)
    /\ log = <<>>
    /\ cs = CsIdle

\* POST /chat/schedule with stored credentials.  The provider answers each
\* calendar's events().list call or fails it (failing), and answers the
\* insert call if the handler gets that far (createOk).
ChatSchedule ==
    /\ Len(log) < MaxMainTurns
    /\ redis.credentials
    /\ \E msg \in MainMessages, createOk \in BOOLEAN, failing \in SUBSET CalendarIdSet :
         IF Fetches(msg)
         THEN LET w == main_window(msg, now)
              IN  /\ w.start >= w.end => failing = CalendarIdSet
                  /\ \E lp \in ListEvents(calendars.primary, w.start, w.end),
                        lo \in ListEvents(calendars.other, w.start, w.end) :
                       /\ LET lists == [primary |-> lp, other |-> lo]
                              events == get_calendar_events(lists, CalendarIds, failing)
                              out == chat_schedule(msg, events, now, createOk)
                              ok == createOk /\ out.created # <<>>
                          IN  /\ (out.created = <<>> => createOk)
                              /\ log' = Append(log, Turn("main", msg, events, out, ok,
                                                    redis, redis, failing,
                                                    Present(calendars)))
                              /\ calendars' =
                                    IF ok
                                    THEN [calendars EXCEPT !.primary = @ \cup
                                            {Ev(out.created[1].start,
                                                out.created[1].end, FALSE)}]
                                    ELSE calendars
         ELSE LET out == chat_schedule(msg, <<>>, now, createOk)
                  ok == createOk /\ out.created # <<>>
              IN  /\ failing = {}
                  /\ (out.created = <<>> => createOk)
                  /\ log' = Append(log, Turn("main", msg, <<>>, out, ok,
                                        redis, redis, {}, Present(calendars)))
                  /\ calendars' =
                        IF ok
                        THEN [calendars EXCEPT !.primary = @ \cup
                                {Ev(out.created[1].start, out.created[1].end, FALSE)}]
                        ELSE calendars
    /\ UNCHANGED <<now, redis, cs>>

\* POST /chat/schedule when get_calendar_list raises inside
\* get_calendar_events: lines 209-211 re-raise, line 560 answers 500
ChatScheduleListFails ==
    /\ Len(log) < MaxMainTurns
    /\ redis.credentials
    /\ \E msg \in MainMessages :
         /\ Fetches(msg)
         /\ log' = Append(log, Turn("main", msg, <<>>, Outcome(Error500, <<>>, <<>>),
                               FALSE, redis, redis, CalendarIdSet,
                               Present(calendars)))
    /\ UNCHANGED <<now, calendars, redis, cs>>

\* POST /chat/schedule without stored credentials: the HTTPException(401)
\* of line 323 is caught at line 560 and answered as 500
ChatScheduleNoCredentials ==
    /\ Len(log) < MaxMainTurns
    /\ ~redis.credentials
    /\ \E msg \in MainMessages :
         log' = Append(log, Turn("main", msg, <<>>, Outcome(Error500, <<>>, <<>>),
                               FALSE, redis, redis, {}, Present(calendars)))
    /\ UNCHANGED <<now, calendars, redis, cs>>

NextMain == ChatSchedule \/ ChatScheduleListFails \/ ChatScheduleNoCredentials

SpecMain == InitMain /\ [][NextMain]_vars

MainTurns == {i \in DOMAIN log : log[i].handler = "main"}

\* C5: whenever main.chat_schedule creates an event, from explicit hours or
\* from a free-time request, the created interval overlaps no event that
\* was on the user's calendars when the message arrived.
C5_MainNeverDoubleBooks ==
    \A i \in MainTurns :
        \A k \in DOMAIN log[i].created :
            \A e \in log[i].present : ~Overlaps(log[i].created[k], e)

\* C8: when reading the events of any calendar fails, the handler aborts the
\* turn: it reports a retrieval failure and creates nothing, instead of
\* going on with the events of the calendars it could read.
C8_ReadFailureAbortsTurn ==
    \A i \in MainTurns :
        log[i].failed # {} =>
            /\ log[i].created = <<>>
            /\ log[i].response \in {Error500, RetrievalFailed}

-----------------------------------------------------------------------------
(* chat.find_longest_available_slot as a state machine: a call is prepared  *)
(* with a list of timed events in any order and a window, then runs.        *)

LongestEventPool ==
    { Iv(Today(10, 0), Today(11, 0)),
      Iv(Today(10, 30), Today(12, 0)),       \* overlaps the first
      Iv(Today(10, 15), Today(10, 45)),      \* nested in the first
      Iv(Today(9, 0), Today(17, 0)),         \* covers the business day
      Iv(Today(7, 0), Today(9, 30)),         \* begins before the window
      Iv(Today(16, 0), Today(18, 0)),        \* ends after the window
      Iv(Today(13, 0), Today(13, 0)) }       \* zero length

LongestEventLists == UNION {[1..n -> LongestEventPool] : n \in 0..MaxEvents}

LongestWindows ==
    { Iv(Today(9, 0), Today(17, 0)),
      Iv(Today(8, 30), Today(18, 30)),
      Iv(Today(9, 0), Today(12, 0)),
      Iv(Today(10, 15), Today(17, 30)),
      Iv(Today(12, 0), Today(11, 0)) }

InitLongest ==
    /\ now \in {Today(10, 30)}
    /\ calendars = [primary |-> {}, other |-> {}]
    /\ redis = Redis(None, None, TRUE)
    /\ log = <<>>
    /\ \E events \in LongestEventLists, w \in LongestWindows :
         cs = [pc |-> "ready", events |-> events, start_time |-> w.start,
               end_time |-> w.end]

FindLongestAvailableSlot ==
    /\ cs.pc = "ready"
    /\ cs' = [pc |-> "longest", events |-> cs.events,
              start_time |-> cs.start_time, end_time |-> cs.end_time,
              slot |-> find_longest_available_slot(cs.events, cs.start_time,
                                                   cs.end_time)]
    /\ UNCHANGED <<now, calendars, redis, log>>

NextLongest == FindLongestAvailableSlot

SpecLongest == InitLongest /\ [][NextLongest]_vars

\* the window after lines 179-182
ClippedWindow ==
    Iv(IF Hour(cs.start_time) < BusinessStartHour
       THEN ReplaceHourMinute(cs.start_time, BusinessStartHour, 0)
       ELSE cs.start_time,
       IF Hour(cs.end_time) > BusinessEndHour
       THEN ReplaceHourMinute(cs.end_time, BusinessEndHour, 0)
       ELSE cs.end_time)

EventSet == {cs.events[k] : k \in DOMAIN cs.events}

\* the non-empty intervals of the clipped window that no event overlaps and
\* that cannot be extended: their ends are window ends or event ends
FreeIn(w) ==
    LET points == {w.start, w.end}
                  \cup {e.start : e \in EventSet} \cup {e.end : e \in EventSet}
        inside == {x \in points : w.start <= x /\ x <= w.end}
        free == {iv \in {Iv(a, b) : a \in inside, b \in inside} :
                    /\ iv.start < iv.end
                    /\ \A e \in EventSet : ~Overlaps(iv, e)}
    IN  {iv \in free : \A jv \in free :
            (jv.start <= iv.start /\ iv.end <= jv.end) => jv = iv}

-----------------------------------------------------------------------------
(* Claims about main.chat_schedule, checked under SpecMain.                 *)

\* the day a message with a date asks about
RequestedDay(msg) == DayOf(main_target_date(Val(msg.date), now))

\* C17 (P3, business-hours containment): every slot chat_schedule books for
\* a free-time request or lists in an availability answer lies within
\* 09:00-17:00 of the requested day.
C17_MainSlotsInBusinessHours ==
    \A i \in MainTurns :
        log[i].msg.kind \in {"free", "avail"} =>
            \A iv \in {log[i].created[k] : k \in DOMAIN log[i].created}
                      \cup {log[i].listed[k] : k \in DOMAIN log[i].listed} :
                /\ DayOf(iv.start) = RequestedDay(log[i].msg)
                /\ InBusinessDay(iv)

\* the window an availability request names: the hours of the message, or
\* the whole day
RequestedWindow(msg) ==
    LET win == avail_window(Val(msg.date), msg.hours, now)
    IN  IF IsNone(msg.hours) THEN win
        ELSE Iv(win.start, ReplaceHourMinute(win.end, Val(msg.hours)[2], 0))

\* C19 (P2, duration floor): every slot of an availability answer lasts at
\* least 30 minutes, lies inside the requested window and overlaps no fetched
\* event; with no fetched events too.
C19_AvailabilitySlotsSound ==
    \A i \in MainTurns :
        log[i].msg.kind = "avail" =>
            \A k \in DOMAIN log[i].listed :
                LET slot == log[i].listed[k]
                    w == RequestedWindow(log[i].msg)
                IN  /\ slot.end - slot.start >= MinDisplayMinutes
                    /\ w.start <= slot.start /\ slot.end <= w.end
                    /\ \A j \in DOMAIN log[i].fetched :
                           ~Overlaps(slot, log[i].fetched[j])

\* C19 witness: an availability answer listed a slot between fetched events
C19_Witness ==
    \E i \in MainTurns :
        /\ log[i].msg.kind = "avail"
        /\ Len(log[i].fetched) >= 2
        /\ Len(log[i].listed) >= 2

\* C19 witness of the empty calendar: the whole requested window is listed
C19_WitnessNoEvents ==
    \E i \in MainTurns :
        /\ log[i].msg.kind = "avail"
        /\ log[i].fetched = <<>>
        /\ log[i].listed = <<RequestedWindow(log[i].msg)>>

\* C20: every event chat_schedule creates has start < end on the requested
\* date.
C20_MainCreatesProperIntervals ==
    \A i \in MainTurns :
        \A k \in DOMAIN log[i].created :
            /\ log[i].created[k].start < log[i].created[k].end
            /\ DayOf(log[i].created[k].start) = RequestedDay(log[i].msg)

-----------------------------------------------------------------------------
(* chat.parse_datetime_jp as a state machine: a call is prepared with a     *)
(* message and the clock (Init), then the function runs on them.            *)

ParseNows ==
    { Today(0, 0), Today(10, 30), Today(23, 59),
      DateTime(0, 1, 1, 10, 30), DateTime(0, 12, 31, 10, 30) }

ParseDates == {<<2, 7>>, <<2, 8>>, <<2, 9>>, <<1, 1>>, <<1, 15>>, <<12, 31>>}

ParseMessages ==
    { \* 午後の空いてる時間に打ち合わせを入れて, 10時〜15時に会議を入れて
      Msg("req", None, TRUE, None, None, "event_creation"),
      Msg("req", None, FALSE, Some(<<10, 15>>), None, "event_creation") }
    \cup UNION {
      { \* X月Y日の午後に会議を入れて
        Msg("req", Some(d), TRUE, None, None, "event_creation"),
        \* X月Y日の8時〜12時に会議を入れて
        Msg("req", Some(d), FALSE, Some(<<8, 12>>), None, "event_creation"),
        \* X月Y日の14時から16時に会議を入れて
        Msg("req", Some(d), FALSE, None, Some(<<14, 0, 16, 0>>), "event_creation"),
        \* X月Y日に会議を入れて
        Msg("req", Some(d), FALSE, None, None, "event_creation") } : d \in ParseDates }

InitParse ==
    /\ now \in ParseNows
    /\ calendars = [primary |-> {}, other |-> {}]
    /\ redis = Redis(None, None, TRUE)
    /\ log = <<>>
    /\ \E msg \in ParseMessages : cs = [pc |-> "ready", msg |-> msg]

ParseDatetimeJp ==
    /\ cs.pc = "ready"
    /\ cs' = [pc |-> "parsed", msg |-> cs.msg,
              result |-> parse_datetime_jp(cs.msg, now)]
    /\ UNCHANGED <<now, calendars, redis, log>>

NextParse == ParseDatetimeJp

SpecParse == InitParse /\ [][NextParse]_vars

-----------------------------------------------------------------------------
(* Claims about chat.parse_datetime_jp, checked under SpecParse.            *)

\* the month/day of the parsed message, in the year of the clock
DateThisYear == DateTime(YearOf(now), Val(cs.msg.date)[1], Val(cs.msg.date)[2], 0, 0)

\* C22: a month/day without a year resolves to next year exactly when that
\* calendar date is before today's date; today or a later date of this year
\* resolves to the current year.
C22_PastDatesRollToNextYear ==
    (cs.pc = "parsed" /\ ~IsNone(cs.msg.date) /\ ~IsNone(cs.result)) =>
        Midnight(Val(cs.result).start) =
            IF DayOf(DateThisYear) < DayOf(now)
            THEN DateThisYear + DaysPerYear * MinutesPerDay
            ELSE DateThisYear

-----------------------------------------------------------------------------
(* app/auth.py and the credential checks of the other handlers.  What a     *)
(* handler body ends with is a record: a returned response (exc "none")     *)
(* with its status, or a raised exception.  The store holds                 *)
(*   credentials    credentials:default_user, None or Some(token)           *)
(*   refresh_token  refresh_token:default_user, None or Some(token)         *)
(*   oauth_state    the set of s whose key oauth_state:s is present         *)

Returned(status_code) == [exc |-> "none", status_code |-> status_code]
HTTPException(status_code) == [exc |-> "HTTPException", status_code |-> status_code]
ValueError == [exc |-> "ValueError", status_code |-> 0]
OtherException == [exc |-> "Exception", status_code |-> 0]

AuthStore(credentials, refresh_token, oauth_state) ==
    [credentials |-> credentials, refresh_token |-> refresh_token,
     oauth_state |-> oauth_state, pending_slot |-> None,
     available_slots |-> None]

\* an "except Exception" clause that raises HTTPException(500): HTTPException
\* is an Exception, so it is caught and replaced as well
except_exception(e) == IF e.exc = "none" THEN e ELSE HTTPException(500)

\* "except HTTPException: raise" followed by an "except Exception" clause
\* that raises HTTPException(500)
except_http_reraise(e) ==
    IF e.exc \in {"none", "HTTPException"} THEN e ELSE HTTPException(500)

\* the state check of auth_callback left out: any state passes
state_is_stored_skipped(state, store) == TRUE

\* auth.py lines 74-89: the callback carries a state whose key is present
state_is_stored(state, store) ==
    ~IsNone(state) /\ Val(state) \in store.oauth_state

\* auth.py lines 69-137, the body of the try block of auth_callback: what it
\* ends with and the store it leaves.  flow: what the OAuth library and the
\* environment do ("ok", "flow_error": create_flow raises ValueError,
\* "fetch_error": fetch_token raises, "no_frontend": FRONTEND_URL is unset);
\* token: the token fetched; has_refresh: the provider sent a refresh token
auth_callback_body(state, store, flow, token, has_refresh) ==
    IF IsNone(state) THEN [end |-> HTTPException(400), store |-> store]
    ELSE IF ~state_is_stored(state, store)
    THEN [end |-> HTTPException(400), store |-> store]
    ELSE IF flow = "flow_error" THEN [end |-> ValueError, store |-> store]
    ELSE IF flow = "fetch_error" THEN [end |-> OtherException, store |-> store]
    ELSE LET written == [store EXCEPT !.credentials = Some(token),
                                      !.refresh_token =
                                          IF has_refresh THEN Some(token) ELSE @]
         IN  IF flow = "no_frontend" THEN [end |-> ValueError, store |-> written]
             ELSE [end |-> Returned(302), store |-> written]

\* auth.py lines 138-149: the except clauses of auth_callback
auth_callback_except(e) ==
    IF e.exc = "ValueError" THEN HTTPException(500) ELSE except_exception(e)

\* auth.py auth_callback
auth_callback(state, store, flow, token, has_refresh) ==
    LET body == auth_callback_body(state, store, flow, token, has_refresh)
    IN  [end |-> auth_callback_except(body.end), store |-> body.store]

\* chat.py lines 233-288, get_calendar_service: the 401 of line 240 is raised
\* inside the outer try, the 401 of line 265 inside the inner one
chat_get_calendar_service(store, access_ok) ==
    IF IsNone(store.credentials) THEN except_exception(HTTPException(401))
    ELSE IF ~access_ok
    THEN except_exception(except_exception(HTTPException(401)))
    ELSE Returned(200)

\* chat.py lines 292-293 and 616-623: schedule_chat as far as the service
chat_schedule_chat_service(store, access_ok) ==
    except_http_reraise(chat_get_calendar_service(store, access_ok))

\* calendar.py lines 13-36, get_calendar_service
calendar_get_calendar_service(store) ==
    IF IsNone(store.credentials) THEN except_exception(HTTPException(401))
    ELSE Returned(200)

\* calendar.py lines 38-70, list_events as far as the service
list_events(store) == except_http_reraise(calendar_get_calendar_service(store))

\* main.py lines 317-326 and 560-565: chat_schedule as far as the credentials
main_chat_schedule_credentials(store) ==
    IF IsNone(store.credentials) THEN except_exception(HTTPException(401))
    ELSE Returned(200)

\* main.py lines 284-313: get_events as far as the credentials
main_get_events_credentials(store) ==
    IF IsNone(store.credentials) THEN except_http_reraise(HTTPException(401))
    ELSE Returned(200)

-----------------------------------------------------------------------------
(* The handlers of auth.py as a state machine.  log holds the callbacks and  *)
(* the endpoint requests handled so far; cs holds the states auth_google    *)
(* has issued.                                                              *)

MaxStates == 1
MaxRequests == 2

\* the state parameter of a callback: missing, one auth_google issued, or one
\* it never issued
CallbackStates == {None} \cup {Some(s) : s \in 1..(MaxStates + 1)}

Flows == {"ok", "flow_error", "fetch_error", "no_frontend"}

Endpoints == {"chat_schedule", "calendar_events", "main_chat_schedule",
              "main_events"}

\* one handled request, as recorded in the log
Request(handler, state, status_code, before, after, issued) ==
    [handler |-> handler, state |-> state, status_code |-> status_code,
     before |-> before, after |-> after, issued |-> issued]

InitAuth ==
    /\ now \in {Today(10, 30)}
    /\ calendars = [primary |-> {}, other |-> {}]
    /\ \E c \in {None, Some(0)}, r \in {None, Some(0)} :
         redis = AuthStore(c, r, {})
    /\ log = <<>>
    /\ cs = [pc |-> "auth", issued |-> {}]

\* GET /google: a fresh state is generated and stored as pending
AuthGoogle ==
    /\ Cardinality(cs.issued) < MaxStates
    /\ LET state == Cardinality(cs.issued) + 1
       IN  /\ redis' = [redis EXCEPT !.oauth_state = @ \cup {state}]
           /\ cs' = [cs EXCEPT !.issued = @ \cup {state}]
    /\ UNCHANGED <<now, calendars, log>>

\* GET /google/callback
AuthCallback ==
    /\ Len(log) < MaxRequests
    /\ \E state \in CallbackStates, flow \in Flows, has_refresh \in BOOLEAN :
         LET out == auth_callback(state, redis, flow, Len(log) + 1, has_refresh)
         IN  /\ log' = Append(log, Request("auth_callback", state,
                                           out.end.status_code, redis,
                                           out.store, cs.issued))
             /\ redis' = out.store
    /\ UNCHANGED <<now, calendars, cs>>

\* the key oauth_state:s expires (ex=3600, line 50)
ExpireState ==
    /\ \E s \in redis.oauth_state :
         redis' = [redis EXCEPT !.oauth_state = @ \ {s}]
    /\ UNCHANGED <<now, calendars, log, cs>>

\* the key credentials:default_user expires (ex=86400, line 116)
ExpireCredentials ==
    /\ ~IsNone(redis.credentials)
    /\ redis' = [redis EXCEPT !.credentials = None]
    /\ UNCHANGED <<now, calendars, log, cs>>

\* a request to one of the endpoints that need the calendar service
EndpointRequest ==
    /\ Len(log) < MaxRequests
    /\ \E endpoint \in Endpoints, access_ok \in BOOLEAN :
         LET end == CASE endpoint = "chat_schedule" ->
                             chat_schedule_chat_service(redis, access_ok)
                      [] endpoint = "calendar_events" -> list_events(redis)
                      [] endpoint = "main_chat_schedule" ->
                             main_chat_schedule_credentials(redis)
                      [] OTHER -> main_get_events_credentials(redis)
         IN  log' = Append(log, Request(endpoint, None, end.status_code, redis,
                                        redis, cs.issued))
    /\ UNCHANGED <<now, calendars, redis, cs>>

NextAuth ==
    AuthGoogle \/ AuthCallback \/ ExpireState \/ ExpireCredentials
        \/ EndpointRequest

SpecAuth == InitAuth /\ [][NextAuth]_vars

-----------------------------------------------------------------------------
(* Claims about auth.py and the credential checks, checked under SpecAuth.  *)

Callbacks == {i \in DOMAIN log : log[i].handler = "auth_callback"}

\* callback i was accepted: it wrote the credentials or answered the redirect
Accepted(i) == log[i].after # log[i].before \/ log[i].status_code = 302

\* C26: an OAuth state is single-use: after one auth_callback carrying that
\* state has been accepted, a second callback carrying the same state is
\* rejected.
C26_StateIsSingleUse ==
    \A i \in Callbacks : \A j \in Callbacks :
        (i < j /\ log[i].state = log[j].state /\ Accepted(i)) => ~Accepted(j)

\* C27: the status a handler chose reaches the client: without stored
\* credentials the schedule and events endpoints answer 401, and a callback
\* with a missing or unknown state is answered with 400.
C27_HandlerStatusReachesClient ==
    /\ \A i \in DOMAIN log :
           (log[i].handler \in Endpoints /\ IsNone(log[i].before.credentials))
               => log[i].status_code = 401
    /\ \A i \in Callbacks :
           ~state_is_stored(log[i].state, log[i].before)
               => log[i].status_code = 400

\* C28: auth_callback writes credentials:default_user and
\* refresh_token:default_user only when the callback carries a state that
\* auth_google stored earlier and that is still present in the store; a
\* callback with a missing or unknown state leaves both keys unchanged.
C28_CallbackWritesOnlyForStoredState ==
    \A i \in Callbacks :
        (\/ log[i].after.credentials # log[i].before.credentials
         \/ log[i].after.refresh_token # log[i].before.refresh_token)
        => /\ ~IsNone(log[i].state)
           /\ Val(log[i].state) \in log[i].issued
           /\ Val(log[i].state) \in log[i].before.oauth_state

\* C28 witness: a callback with a stored state wrote both keys, and a later
\* one whose state had expired left them alone
C28_Witness ==
    \E i \in Callbacks : \E j \in Callbacks :
        /\ i < j
        /\ log[i].after.credentials # log[i].before.credentials
        /\ log[i].after.refresh_token # log[i].before.refresh_token
        /\ log[j].state = log[i].state
        /\ log[j].after = log[j].before

-----------------------------------------------------------------------------
(* ClaudeService.find_available_slots pass by pass: a call is prepared with *)
(* its arguments (InitClaude), lines 38-70 set the cursor, then every step  *)
(* is one pass of the while loop of lines 73-105.                           *)

\* lines 38-70: the busy periods sorted, the window clipped, the cursor moved
\* past the first busy period
EnterLoop ==
    /\ cs.pc = "ready"
    /\ LET busy_periods == busy_periods_of(cs.busy_slots)
           current0 == Max2(cs.start_time,
                            ReplaceHourMinute(cs.start_time, BusinessStartHour, 0))
           end_time == Min2(cs.end_time,
                            ReplaceHourMinute(cs.end_time, ClaudeBusinessEndHour, 0))
           target_date == DayOf(current0)
           fb == first_busy_index(busy_periods, 1, current0, target_date)
       IN  cs' = [pc |-> "loop", busy_slots |-> cs.busy_slots,
                  start_time |-> cs.start_time, end_time |-> cs.end_time,
                  busy_periods |-> busy_periods, clipped_end |-> end_time,
                  target_date |-> target_date,
                  current |-> IF fb # 0 THEN busy_periods[fb].end ELSE current0,
                  available_slots |-> <<>>, passes |-> 0]
    /\ UNCHANGED <<now, calendars, redis, log>>

\* lines 73-105: one pass of the loop, or the return of line 107
LoopPass ==
    /\ cs.pc = "loop"
    /\ LET st == loop_step(cs.busy_slots, cs.busy_periods, cs.current,
                           cs.clipped_end, cs.target_date, cs.available_slots)
       IN  cs' = [cs EXCEPT !.pc = IF st.done THEN "returned" ELSE "loop",
                            !.current = st.current,
                            !.available_slots = st.available_slots,
                            !.passes = IF st.done THEN @ ELSE @ + 1]
    /\ UNCHANGED <<now, calendars, redis, log>>

NextLoop == EnterLoop \/ LoopPass

SpecLoop == InitClaude /\ [][NextLoop]_vars

\* the interpreter runs the call to its end
SpecLoopFair == SpecLoop /\ WF_vars(NextLoop)

-----------------------------------------------------------------------------
(* Claims about the search loop, checked under SpecLoopFair.                *)

\* C30: find_available_slots terminates for every finite list of busy
\* intervals (overlapping, zero-length or inverted ones included) and every
\* window: each pass of its search loop either ends the loop or strictly
\* advances the cursor.
C30_SearchLoopTerminates ==
    /\ [][(cs.pc = "loop" /\ cs'.pc = "loop") => cs'.current > cs.current]_vars
    /\ <>(cs.pc = "returned")

\* C30 witness: a call with an inverted or zero-length busy interval returned
\* after passes that skipped a busy period and passes that added a slot
C30_Witness ==
    /\ cs.pc = "returned"
    /\ cs.passes > Len(cs.available_slots)
    /\ cs.available_slots # <<>>
    /\ \E k \in DOMAIN cs.busy_slots : cs.busy_slots[k].start >= cs.busy_slots[k].end

====
